---- MODULE Spec2Model ----
(***************************************************************************)
(* Model of samples/api/hpp_hello_triangle/hpp_hello_triangle.cpp:         *)
(* the per-frame resource lifecycle (FrameData slots, the recycled         *)
(* semaphore pool), the acquire / render / present cycle of update(), and  *)
(* the swapchain rebuild of resize() / init_swapchain().                   *)
(*                                                                         *)
(* The host runs one handler at a time; pc is its position.  A handler is  *)
(* cut only where the host blocks on the device (waitForFences, waitIdle), *)
(* because the GPU and the presentation engine make progress there.        *)
(* Vulkan handles are positive integers, NULL is the null handle.  C++     *)
(* vectors are sequences, so image index i of the code is i + 1 here.      *)
(***************************************************************************)
EXTENDS Integers, Sequences, FiniteSets, TLC

\* ------------------------------------------------------------------ bounds
\* Largest number of images a swapchain of the model can have.
MaxImages == 2
\* Largest number of semaphores the pool law creates.
MaxPool == 3

\* ------------------------------------------------------- program constants
NULL == 0
\* uint32_t values are written as their 32-bit patterns read as signed
\* integers: 0 .. 2^31 - 1 as themselves, 0xFFFFFFFF as -1.
\* The width the surface reports when its extent is undefined (0xFFFFFFFF).
UndefinedWidth == -1
\* x + 1 in uint32_t arithmetic (0xFFFFFFFF + 1 wraps to 0).
U32Inc(x) == IF x = -1 THEN 0
             ELSE IF x = 2147483647 THEN -2147483647 - 1
             ELSE x + 1
\* a > b between uint32_t values.
U32Greater(a, b) == IF (a < 0) = (b < 0) THEN a > b ELSE a < 0

UndefinedExtent == [width |-> UndefinedWidth, height |-> UndefinedWidth]
\* Extents a window can have.
WindowExtents == {[width |-> 800, height |-> 600], [width |-> 640, height |-> 480]}
\* Extents vk::SurfaceCapabilitiesKHR::currentExtent can report.
SurfaceExtents == WindowExtents \cup {UndefinedExtent}

\* vk::Result values of acquireNextImageKHR / presentKHR that the code tells
\* apart; eErrorSurfaceLostKHR stands for every other failure.
Results == {"eSuccess", "eSuboptimalKHR", "eErrorOutOfDateKHR", "eErrorSurfaceLostKHR"}
IsStale(r) == r = "eSuboptimalKHR" \/ r = "eErrorOutOfDateKHR"

\* States of a binary semaphore: unsignaled with nothing pending, or carrying
\* the signal of an acquireNextImageKHR request that no wait has consumed yet
\* (pending or already executed).  A pending wait is a submission of
\* gpu_queue that waits on the semaphore.
SemStates == {"unsignaled", "signal_pending"}

VARIABLES
    pc,                  \* position of the host thread
    device,              \* TRUE once prepare() created the device
    swapchain_data,      \* [swapchain, extent, image_views, framebuffers]
    per_frame_data,      \* sequence of FrameData
    recycled_semaphores, \* sequence of semaphore handles
    acquire_semaphore,   \* local of acquire_next_image()
    res,                 \* local of update()
    index,               \* local of update(): acquired image, 1-based
    rz,                  \* the running resize() call, see ResizeCall
    live,                \* handles created and not destroyed, per kind
    misuse,              \* invalid handle uses seen so far
    sem_state,           \* device state of every live semaphore
    fence_signaled,      \* the live fences that are signaled
    gpu_queue,           \* submissions the GPU has not completed
    sc_count,            \* number of images of every live swapchain
    held,                \* images the presentation engine cannot hand out
    frame,               \* what the running / last update() did so far
    slot_test,           \* FrameData under test (teardown law)
    pool_test,           \* bookkeeping of the pool law
    build_test,          \* inputs and results of a build under test
    presenting,          \* presents the presentation engine has not consumed
    unpresented          \* images delivered to the application, not yet presented

vars == <<pc, device, swapchain_data, per_frame_data, recycled_semaphores,
          acquire_semaphore, res, index, rz, live, misuse, sem_state,
          fence_signaled, gpu_queue, sc_count, held, frame, slot_test, pool_test, build_test, presenting, unpresented>>

\* ------------------------------------------------------------------ helpers
Min(S) == CHOOSE x \in S : \A y \in S : x <= y
Last(s) == s[Len(s)]
Front(s) == SubSeq(s, 1, Len(s) - 1)
Range(s) == {s[i] : i \in 1..Len(s)}

RECURSIVE Flatten(_)
Flatten(ss) == IF ss = <<>> THEN <<>> ELSE Head(ss) \o Flatten(Tail(ss))

\* The device hands out the smallest handle value that is not in use.
NewHandle(used) == Min((1..(Cardinality(used) + 1)) \ used)

RECURSIVE NewHandles(_, _)
NewHandles(used, n) ==
    IF n = 0 THEN <<>>
    ELSE LET h == NewHandle(used) IN <<h>> \o NewHandles(used \cup {h}, n - 1)

\* A device call: [op, kind, handle].  op "destroy" ends the handle's life.
DestroyCall(kind, h) == <<[op |-> "destroy", kind |-> kind, handle |-> h]>>

\* create_swapchain() line 612-614: createSwapchainKHR with oldSwapchain set.
CreateSwapchainCall(h, old_swapchain) ==
    <<[op |-> "create", kind |-> "swapchain", handle |-> h, oldSwapchain |-> old_swapchain]>>

\* Effect of a sequence of destroy calls on the live handles; bad is TRUE if
\* a call names a handle that is not live (double destroy).
RECURSIVE ApplyCalls(_, _)
ApplyCalls(lv, calls) ==
    IF calls = <<>> THEN [live |-> lv, bad |-> FALSE]
    ELSE LET c == Head(calls)
             ok == c.handle \in lv[c.kind]
             rest == ApplyCalls([lv EXCEPT ![c.kind] = @ \ {c.handle}], Tail(calls))
         IN  [live |-> rest.live, bad |-> rest.bad \/ ~ok]

NoLive == [semaphore |-> {}, fence |-> {}, command_pool |-> {}, command_buffer |-> {},
           swapchain |-> {}, image_view |-> {}, framebuffer |-> {}]

\* ---------------------------------------------------------------- FrameData
\* struct FrameData: every handle is default-constructed to null.
FrameData == [queue_submit_fence |-> NULL,
              primary_command_pool |-> NULL,
              primary_command_buffer |-> NULL,
              swapchain_acquire_semaphore |-> NULL,
              swapchain_release_semaphore |-> NULL]

\* Variant of teardown_per_frame() that forgets to null the acquire semaphore
\* after destroying it.
teardown_per_frame_keep(pfd) ==
    LET c1 == IF pfd.queue_submit_fence # NULL
              THEN DestroyCall("fence", pfd.queue_submit_fence) ELSE <<>>
        c2 == IF pfd.primary_command_buffer # NULL
              THEN DestroyCall("command_buffer", pfd.primary_command_buffer) ELSE <<>>
        c3 == IF pfd.primary_command_pool # NULL
              THEN DestroyCall("command_pool", pfd.primary_command_pool) ELSE <<>>
        c4 == IF pfd.swapchain_acquire_semaphore # NULL
              THEN DestroyCall("semaphore", pfd.swapchain_acquire_semaphore) ELSE <<>>
        c5 == IF pfd.swapchain_release_semaphore # NULL
              THEN DestroyCall("semaphore", pfd.swapchain_release_semaphore) ELSE <<>>
    IN  [slot |-> [pfd EXCEPT !.queue_submit_fence = NULL,
                              !.primary_command_buffer = NULL,
                              !.primary_command_pool = NULL,
                              !.swapchain_release_semaphore = NULL],
         calls |-> c1 \o c2 \o c3 \o c4 \o c5]

\* Variant of teardown_per_frame() that destroys the command pool before it
\* frees the command buffer.
teardown_per_frame_pool_first(pfd) ==
    LET c1 == IF pfd.queue_submit_fence # NULL
              THEN DestroyCall("fence", pfd.queue_submit_fence) ELSE <<>>
        c2 == IF pfd.primary_command_pool # NULL
              THEN DestroyCall("command_pool", pfd.primary_command_pool) ELSE <<>>
        c3 == IF pfd.primary_command_buffer # NULL
              THEN DestroyCall("command_buffer", pfd.primary_command_buffer) ELSE <<>>
        c4 == IF pfd.swapchain_acquire_semaphore # NULL
              THEN DestroyCall("semaphore", pfd.swapchain_acquire_semaphore) ELSE <<>>
        c5 == IF pfd.swapchain_release_semaphore # NULL
              THEN DestroyCall("semaphore", pfd.swapchain_release_semaphore) ELSE <<>>
    IN  [slot |-> FrameData, calls |-> c1 \o c2 \o c3 \o c4 \o c5]

\* teardown_per_frame(): destroy what is present, in field order, and null it.
\* Returns the slot as it is left and the device calls issued.
teardown_per_frame(pfd) ==
    LET c1 == IF pfd.queue_submit_fence # NULL
              THEN DestroyCall("fence", pfd.queue_submit_fence) ELSE <<>>
        p1 == [pfd EXCEPT !.queue_submit_fence = NULL]
        c2 == IF p1.primary_command_buffer # NULL
              THEN DestroyCall("command_buffer", p1.primary_command_buffer) ELSE <<>>
        p2 == [p1 EXCEPT !.primary_command_buffer = NULL]
        c3 == IF p2.primary_command_pool # NULL
              THEN DestroyCall("command_pool", p2.primary_command_pool) ELSE <<>>
        p3 == [p2 EXCEPT !.primary_command_pool = NULL]
        c4 == IF p3.swapchain_acquire_semaphore # NULL
              THEN DestroyCall("semaphore", p3.swapchain_acquire_semaphore) ELSE <<>>
        p4 == [p3 EXCEPT !.swapchain_acquire_semaphore = NULL]
        c5 == IF p4.swapchain_release_semaphore # NULL
              THEN DestroyCall("semaphore", p4.swapchain_release_semaphore) ELSE <<>>
        p5 == [p4 EXCEPT !.swapchain_release_semaphore = NULL]
    IN  [slot |-> p5, calls |-> c1 \o c2 \o c3 \o c4 \o c5]

\* Variant of teardown_framebuffers() that destroys nothing.
teardown_framebuffers_none(sd) == <<>>

\* teardown_framebuffers(), after its queue.waitIdle(): the calls it issues.
teardown_framebuffers(sd) ==
    Flatten([i \in 1..Len(sd.framebuffers) |-> DestroyCall("framebuffer", sd.framebuffers[i])])

\* ---------------------------------------------------------------- swapchain
\* create_swapchain(): the image count the code asks the device for.
desired_swapchain_images(minImageCount, maxImageCount) ==
    LET desired == U32Inc(minImageCount)
    IN  IF U32Greater(maxImageCount, 0) /\ U32Greater(desired, maxImageCount)
        THEN maxImageCount ELSE desired

\* Surface capabilities the model draws from: 1 <= min, and max is 0 (no
\* limit) or at least min; only those whose request fits the bound.
SurfaceCaps ==
    {c \in [minImageCount : 1..MaxImages, maxImageCount : 0..MaxImages] :
        /\ c.maxImageCount = 0 \/ c.maxImageCount >= c.minImageCount
        /\ desired_swapchain_images(c.minImageCount, c.maxImageCount) <= MaxImages}

\* The device creates at least the requested number of images.
ImageCounts(c) == desired_swapchain_images(c.minImageCount, c.maxImageCount)..MaxImages

\* The image counts a build can end with, over all surface capabilities.
DeviceImageCounts == UNION {ImageCounts(c) : c \in SurfaceCaps}

\* Variant of the loop of init_swapchain() that creates no fence.
NewFrameDataNoFence(fence, pool, buffer) ==
    [FrameData EXCEPT !.primary_command_pool = pool,
                      !.primary_command_buffer = buffer]

\* One freshly built slot of init_swapchain()'s loop.
NewFrameData(fence, pool, buffer) ==
    [FrameData EXCEPT !.queue_submit_fence = fence,
                      !.primary_command_pool = pool,
                      !.primary_command_buffer = buffer]

\* Variant of line 639 that always keeps the stored extent.
swapchain_extent_stored(current_extent, stored) == stored

\* Variant of line 639 that always takes what the surface reports.
swapchain_extent_reported(current_extent, stored) == current_extent

\* init_swapchain() line 639: the extent the swapchain is created with.
swapchain_extent_of(current_extent, stored) ==
    IF current_extent.width = UndefinedWidth THEN stored ELSE current_extent

\* init_swapchain(): sd, pfds, lv are swapchain_data, per_frame_data and the
\* live handles before the call, surf the currentExtent the surface reports
\* and n the image count of the swapchain the device creates.
init_swapchain(sd, pfds, lv, counts, surf, n) ==
    LET swapchain_extent == swapchain_extent_of(surf, sd.extent)
        old_swapchain == sd.swapchain
        new_swapchain == NewHandle(lv.swapchain)
        lv1 == [lv EXCEPT !.swapchain = @ \cup {new_swapchain}]
        image_count == IF old_swapchain # NULL THEN counts[old_swapchain] ELSE 0
        torn == [i \in 1..image_count |-> teardown_per_frame(pfds[i])]
        calls == IF old_swapchain # NULL
                 THEN Flatten([i \in 1..Len(sd.image_views) |->
                                  DestroyCall("image_view", sd.image_views[i])])
                      \o Flatten([i \in 1..image_count |-> torn[i].calls])
                      \o DestroyCall("swapchain", old_swapchain)
                 ELSE <<>>
        applied == ApplyCalls(lv1, calls)
        lv2 == applied.live
        kept_views == IF old_swapchain # NULL THEN <<>> ELSE sd.image_views
        fences == NewHandles(lv2.fence, n)
        pools == NewHandles(lv2.command_pool, n)
        buffers == NewHandles(lv2.command_buffer, n)
        views == NewHandles(lv2.image_view, n)
        lv3 == [lv2 EXCEPT !.fence = @ \cup Range(fences),
                           !.command_pool = @ \cup Range(pools),
                           !.command_buffer = @ \cup Range(buffers),
                           !.image_view = @ \cup Range(views)]
    IN  [swapchain_data |-> [sd EXCEPT !.swapchain = new_swapchain,
                                       !.extent = swapchain_extent,
                                       !.image_views = kept_views \o views],
         per_frame_data |-> [i \in 1..n |-> NewFrameData(fences[i], pools[i], buffers[i])],
         live |-> lv3,
         bad |-> applied.bad,
         calls |-> calls,
         log |-> CreateSwapchainCall(new_swapchain, old_swapchain) \o calls,
         created_extent |-> swapchain_extent,
         fences |-> Range(fences),
         sc_count |-> [h \in lv3.swapchain |-> IF h = new_swapchain THEN n ELSE counts[h]]]

\* Variant of init_framebuffers() that builds a framebuffer for the first
\* image view only.
init_framebuffers_single(sd, lv) ==
    LET fbs == NewHandles(lv.framebuffer, IF Len(sd.image_views) > 0 THEN 1 ELSE 0)
    IN  [swapchain_data |-> [sd EXCEPT !.framebuffers = @ \o fbs],
         live |-> [lv EXCEPT !.framebuffer = @ \cup Range(fbs)]]

\* init_framebuffers(): one framebuffer per image view.
init_framebuffers(sd, lv) ==
    LET fbs == NewHandles(lv.framebuffer, Len(sd.image_views))
    IN  [swapchain_data |-> [sd EXCEPT !.framebuffers = @ \o fbs],
         live |-> [lv EXCEPT !.framebuffer = @ \cup Range(fbs)]]

\* Device state of the semaphores that are still live.
KeepLive(st, lv) == [s \in lv.semaphore |-> IF s \in DOMAIN st THEN st[s] ELSE "unsignaled"]

\* --------------------------------------------------------------------- Init
\* What the running update() did so far; cleared when update() returns.
NoFrame == [acquires |-> 0, rebuilds |-> 0, submits |-> 0, presents |-> 0,
            first |-> "none", second |-> "none"]
NoResize == [ret |-> "none"]
NoSlotTest == [stage |-> "off"]
NoPoolTest == [stage |-> "off"]
NoBuildTest == [stage |-> "off"]

\* The state after the constructor: nothing is created yet.
InitApp ==
    /\ pc = "constructed"
    /\ device = FALSE
    /\ swapchain_data = [swapchain |-> NULL, extent |-> [width |-> 0, height |-> 0],
                         image_views |-> <<>>, framebuffers |-> <<>>]
    /\ per_frame_data = <<>>
    /\ recycled_semaphores = <<>>
    /\ acquire_semaphore = NULL
    /\ res = "none"
    /\ index = 0
    /\ rz = NoResize
    /\ live = NoLive
    /\ misuse = {}
    /\ sem_state = <<>>
    /\ fence_signaled = {}
    /\ gpu_queue = {}
    /\ sc_count = <<>>
    /\ held = {}
    /\ frame = NoFrame
    /\ presenting = {}
    /\ unpresented = {}

Init ==
    /\ InitApp
    /\ slot_test = NoSlotTest
    /\ pool_test = NoPoolTest
    /\ build_test = NoBuildTest

\* The pure-function specifications leave the application untouched.
AppUnchanged ==
    UNCHANGED <<pc, device, swapchain_data, per_frame_data, acquire_semaphore, res, index,
                rz, misuse, sem_state, fence_signaled, gpu_queue, sc_count, held, frame>>

\* ------------------------------------------------------------------ prepare
\* prepare(): store the window extent, create the device, init_swapchain(),
\* render pass and pipeline, init_framebuffers().
Prepare ==
    /\ pc = "constructed"
    /\ \E window \in WindowExtents, surf \in SurfaceExtents :
       \E n \in DeviceImageCounts :
          LET sd0 == [swapchain_data EXCEPT !.extent = window]
              sw == init_swapchain(sd0, per_frame_data, live, sc_count, surf, n)
              fb == init_framebuffers(sw.swapchain_data, sw.live)
          IN  /\ swapchain_data' = fb.swapchain_data
              /\ per_frame_data' = sw.per_frame_data
              /\ live' = fb.live
              /\ misuse' = IF sw.bad THEN misuse \cup {"double_destroy"} ELSE misuse
              /\ sc_count' = sw.sc_count
              /\ fence_signaled' = sw.fences
              /\ sem_state' = KeepLive(sem_state, fb.live)
    /\ device' = TRUE
    /\ pc' = "idle"
    /\ UNCHANGED <<recycled_semaphores, acquire_semaphore, res, index, rz, gpu_queue,
                   held, frame, slot_test, pool_test, build_test, presenting, unpresented>>

\* ------------------------------------------------------------------- update
\* A call of resize(arg.width, arg.height): ret is where the call returns to
\* ("retry" and "end" inside update(), "external" the platform), surf the
\* extent the surface reported to resize(), built the extent it reported to
\* init_swapchain(), rebuilt the return value, calls the device calls of the
\* rebuild in the order they were issued, and before the Surface Set and the
\* slots when the call was made.
ResizeCall(ret, arg, sd, pfds) ==
    [ret |-> ret, arg |-> arg, surf |-> UndefinedExtent, built |-> UndefinedExtent,
     rebuilt |-> FALSE, calls |-> <<>>, before |-> [swapchain_data |-> sd, per_frame_data |-> pfds]]

\* Variant of the first part of acquire_next_image() that creates a
\* semaphore on every call and never takes one from the pool.
ObtainAlwaysNew(pool, lv) ==
    LET s == NewHandle(lv.semaphore)
    IN  [semaphore |-> s, pool |-> pool, created |-> TRUE,
         live |-> [lv EXCEPT !.semaphore = @ \cup {s}]]

\* Variant of the first part of acquire_next_image() that takes the last
\* pooled semaphore without popping it.
ObtainWithoutPop(pool, lv) ==
    IF pool = <<>>
    THEN LET s == NewHandle(lv.semaphore)
         IN  [semaphore |-> s, pool |-> pool, created |-> TRUE,
              live |-> [lv EXCEPT !.semaphore = @ \cup {s}]]
    ELSE [semaphore |-> Last(pool), pool |-> pool, created |-> FALSE, live |-> lv]

\* acquire_next_image(), first part: take the last pooled semaphore, or
\* create one when the pool is empty.
ObtainSemaphore(pool, lv) ==
    IF pool = <<>>
    THEN LET s == NewHandle(lv.semaphore)
         IN  [semaphore |-> s, pool |-> pool, created |-> TRUE,
              live |-> [lv EXCEPT !.semaphore = @ \cup {s}]]
    ELSE [semaphore |-> Last(pool), pool |-> Front(pool), created |-> FALSE, live |-> lv]

\* Variant of the non-success return that drops the semaphore.
ReturnDropped(pool, semaphore) == pool

\* Variant of the non-success return that pushes the semaphore twice.
ReturnTwice(pool, semaphore) == Append(Append(pool, semaphore), semaphore)

\* acquire_next_image(), non-success return: the semaphore goes back.
ReturnSemaphore(pool, semaphore) == Append(pool, semaphore)

\* acquireNextImageKHR delivers an image with these results.
Delivers(r) == r = "eSuccess" \/ r = "eSuboptimalKHR"

\* Variant of update() that retries after every failure of the first acquire.
AfterFailedAcquireAny(first, r) == IF first THEN "resize" ELSE "wait_idle"

\* Variant of update() that returns after a failed acquire without waiting
\* for the queue.
AfterFailedAcquireNoWait(first, r) == IF first /\ IsStale(r) THEN "resize" ELSE "return"

\* update() lines 187-197: what follows a non-success return of an acquire.
AfterFailedAcquire(first, r) == IF first /\ IsStale(r) THEN "resize" ELSE "wait_idle"

\* The images acquireNextImageKHR can deliver: those the application does not
\* hold and the presentation engine is not waiting to present.
Available(n, app_held, queued) == ((1..n) \ app_held) \ {p.image : p \in queued}

\* acquire_next_image() up to the fence wait: obtain a semaphore, ask for the
\* next image; on a non-success result push the semaphore back and return.
\* first tells the call of update() line 184 from the retry of line 190.
AcquireNextImage(first) ==
    LET got == ObtainSemaphore(recycled_semaphores, live)
        sem == got.semaphore
        st1 == KeepLive(sem_state, got.live)
        n   == sc_count[swapchain_data.swapchain]
    IN  \E r \in Results :
        \E image \in (IF Delivers(r) THEN Available(n, held, presenting) ELSE {0}) :
           /\ live' = got.live
           /\ misuse' = IF sem \in got.live.semaphore THEN misuse
                        ELSE misuse \cup {"use_after_destroy"}
           /\ sem_state' = IF Delivers(r) THEN [st1 EXCEPT ![sem] = "signal_pending"] ELSE st1
           /\ held' = IF Delivers(r) THEN held \cup {image} ELSE held
           /\ unpresented' = IF Delivers(r) THEN unpresented \cup {image} ELSE unpresented
           /\ index' = image
           /\ res' = r
           /\ frame' = LET f == IF first THEN NoFrame ELSE frame
                       IN  [f EXCEPT !.acquires = @ + 1,
                                     !.first = IF first THEN r ELSE @,
                                     !.second = IF first THEN @ ELSE r]
           /\ IF r # "eSuccess"
              THEN /\ recycled_semaphores' = ReturnSemaphore(got.pool, sem)
                   /\ acquire_semaphore' = NULL
                   /\ pc' = AfterFailedAcquire(first, r)
                   /\ rz' = IF AfterFailedAcquire(first, r) = "resize"
                            THEN ResizeCall("retry", swapchain_data.extent,
                                            swapchain_data, per_frame_data)
                            ELSE rz
              ELSE /\ recycled_semaphores' = got.pool
                   /\ acquire_semaphore' = sem
                   /\ pc' = "wait_fence"
                   /\ UNCHANGED rz
           /\ UNCHANGED <<device, swapchain_data, per_frame_data, fence_signaled, gpu_queue,
                          sc_count, slot_test, pool_test, build_test, presenting>>

\* update() line 184: the first acquire of a frame.
AcquireFirst == pc = "idle" /\ AcquireNextImage(TRUE)

\* update() line 190: the retry after resize().
AcquireRetry == pc = "retry" /\ AcquireNextImage(FALSE)

\* Variant of the fence wait that returns at once.
FenceWaitSkipped(pfd, signaled) == TRUE

\* waitForFences(fence, true, UINT64_MAX) returns once the fence is signaled.
FenceWaitReturns(pfd, signaled) ==
    pfd.queue_submit_fence # NULL => pfd.queue_submit_fence \in signaled

\* Variant of acquire_next_image() that does not reset the fence.
ResetFencesSkipped(signaled, fence) == signaled

\* device.resetFences(fence), line 282: the fence is unsignaled.
ResetFences(signaled, fence) == signaled \ {fence}

\* Variant that recycles the new semaphore instead of the old one.
RecycleNew(pool, old_semaphore, new_semaphore) ==
    IF old_semaphore # NULL THEN Append(pool, new_semaphore) ELSE pool

\* Variant that recycles the slot's semaphore without looking at it.
RecycleUnchecked(pool, old_semaphore, new_semaphore) == Append(pool, old_semaphore)

\* The pool after a successful acquire: the slot's old semaphore is recycled.
RecycleOld(pool, old_semaphore, new_semaphore) ==
    IF old_semaphore # NULL THEN Append(pool, old_semaphore) ELSE pool

\* acquire_next_image() from the fence wait on: wait for and reset the slot's
\* fence, reset its command pool, recycle its old semaphore, store the new.
WaitFence ==
    /\ pc = "wait_fence"
    /\ LET pfd == per_frame_data[index]
       IN  /\ FenceWaitReturns(pfd, fence_signaled)
           /\ fence_signaled' = ResetFences(fence_signaled, pfd.queue_submit_fence)
           /\ misuse' = IF /\ pfd.queue_submit_fence \in live.fence \cup {NULL}
                           /\ pfd.primary_command_pool \in live.command_pool \cup {NULL}
                        THEN misuse ELSE misuse \cup {"use_after_destroy"}
           /\ recycled_semaphores' = RecycleOld(recycled_semaphores,
                                                pfd.swapchain_acquire_semaphore,
                                                acquire_semaphore)
           /\ per_frame_data' = [per_frame_data EXCEPT
                                    ![index].swapchain_acquire_semaphore = acquire_semaphore]
    /\ acquire_semaphore' = NULL
    /\ pc' = "render"
    /\ UNCHANGED <<device, swapchain_data, res, index, rz, live, sem_state, gpu_queue,
                   sc_count, held, frame, slot_test, pool_test, build_test, presenting, unpresented>>

\* The handle of the release semaphore created for slot i.  Handle values are
\* opaque; a slot has at most one release semaphore at a time.
ReleaseHandle(i) == 100 + i

\* render_triangle(): record the command buffer, create the release
\* semaphore if absent, submit with the slot's fence.
RenderTriangle ==
    /\ pc = "render"
    /\ LET pfd == per_frame_data[index]
           make == pfd.swapchain_release_semaphore = NULL
           rel == IF make THEN ReleaseHandle(index) ELSE pfd.swapchain_release_semaphore
           lv1 == IF make THEN [live EXCEPT !.semaphore = @ \cup {rel}] ELSE live
       IN  /\ live' = lv1
           /\ sem_state' = KeepLive(sem_state, lv1)
           /\ per_frame_data' = [per_frame_data EXCEPT ![index].swapchain_release_semaphore = rel]
           /\ misuse' = IF /\ pfd.swapchain_acquire_semaphore \in live.semaphore
                           /\ rel \in lv1.semaphore
                           /\ pfd.queue_submit_fence \in live.fence
                           /\ pfd.primary_command_buffer \in live.command_buffer
                        THEN misuse ELSE misuse \cup {"use_after_destroy"}
           /\ gpu_queue' = gpu_queue \cup
                  {[command_buffer |-> pfd.primary_command_buffer,
                    wait |-> pfd.swapchain_acquire_semaphore,
                    signal |-> rel,
                    fence |-> pfd.queue_submit_fence]}
    /\ frame' = [frame EXCEPT !.submits = @ + 1]
    /\ pc' = "present"
    /\ UNCHANGED <<device, swapchain_data, recycled_semaphores, acquire_semaphore, res, index,
                   rz, fence_signaled, sc_count, held, slot_test, pool_test, build_test, presenting, unpresented>>

\* Variant of update() that calls resize() after every failed present.
AfterPresentAnyFailure(r) == IF r # "eSuccess" THEN "resize" ELSE "return"

\* update() lines 210-217: what follows presentKHR.
AfterPresent(r) == IF IsStale(r) THEN "resize" ELSE "return"

\* Variant of the present that waits on the slot's acquire semaphore.
QueuedPresentOnAcquire(i, sd, pfds) ==
    [image |-> i, wait |-> pfds[i].swapchain_acquire_semaphore, swapchain |-> sd.swapchain]

\* The present of image i as the presentation engine sees it: it waits on
\* the slot's release semaphore (line 203) and names the swapchain (line 205).
QueuedPresent(i, sd, pfds) ==
    [image |-> i, wait |-> pfds[i].swapchain_release_semaphore, swapchain |-> sd.swapchain]

\* update() lines 201-217: present the image; a stale result calls resize().
\* The image goes back to the presentation engine, except that after a hard
\* failure it may stay with the application.  With queued the semaphore wait
\* of the present stays outstanding after presentKHR returned, else the
\* presentation engine has consumed it by then.
PresentKHR(queued) ==
    /\ pc = "present"
    /\ presenting' = IF queued
                     THEN presenting \cup {QueuedPresent(index, swapchain_data, per_frame_data)}
                     ELSE presenting
    /\ \E r \in Results, kept \in BOOLEAN :
          /\ kept => r = "eErrorSurfaceLostKHR"
          /\ res' = r
          /\ held' = IF kept THEN held ELSE held \ {index}
          /\ unpresented' = unpresented \ {index}
          /\ misuse' = IF /\ per_frame_data[index].swapchain_release_semaphore \in live.semaphore
                          /\ swapchain_data.swapchain \in live.swapchain
                       THEN misuse ELSE misuse \cup {"use_after_destroy"}
          /\ pc' = AfterPresent(r)
          /\ rz' = IF AfterPresent(r) = "resize"
                   THEN ResizeCall("end", swapchain_data.extent, swapchain_data, per_frame_data)
                   ELSE rz
    /\ frame' = [frame EXCEPT !.presents = @ + 1]
    /\ UNCHANGED <<device, swapchain_data, per_frame_data, recycled_semaphores,
                   acquire_semaphore, index, live, sem_state, fence_signaled, gpu_queue,
                   sc_count, slot_test, pool_test, build_test>>

\* presentKHR whose semaphore wait is over when it returns.
Present == PresentKHR(FALSE)

\* update() lines 193-197: queue.waitIdle() returns once the queue is idle.
WaitIdleReturn ==
    /\ pc = "wait_idle"
    /\ gpu_queue = {}
    /\ pc' = "return"
    /\ UNCHANGED <<device, swapchain_data, per_frame_data, recycled_semaphores,
                   acquire_semaphore, res, index, rz, live, misuse, sem_state, fence_signaled,
                   gpu_queue, sc_count, held, frame, slot_test, pool_test, build_test, presenting, unpresented>>

\* update() returns: its locals are gone.
UpdateReturn ==
    /\ pc = "return"
    /\ pc' = "idle"
    /\ res' = "none"
    /\ index' = 0
    /\ frame' = NoFrame
    /\ UNCHANGED <<device, swapchain_data, per_frame_data, recycled_semaphores,
                   acquire_semaphore, rz, live, misuse, sem_state, fence_signaled,
                   gpu_queue, sc_count, held, slot_test, pool_test, build_test, presenting, unpresented>>

\* ------------------------------------------------------------------- resize
\* Where control goes when resize() returns.
ResizeReturn(ret, dev) ==
    CASE ret = "retry" -> "retry"
      [] ret = "end" -> "return"
      [] OTHER -> IF dev THEN "idle" ELSE "constructed"

\* The platform calls resize(width, height) between frames.
ResizeRequested ==
    /\ pc \in {"idle", "constructed"}
    /\ \E arg \in WindowExtents :
          rz' = ResizeCall("external", arg, swapchain_data, per_frame_data)
    /\ pc' = "resize"
    /\ UNCHANGED <<device, swapchain_data, per_frame_data, recycled_semaphores,
                   acquire_semaphore, res, index, live, misuse, sem_state, fence_signaled,
                   gpu_queue, sc_count, held, frame, slot_test, pool_test, build_test, presenting, unpresented>>

\* Variant of the check of resize() that compares the arguments of the call.
ExtentUnchangedByArg(current_extent, sd, arg) == arg = sd.extent

\* Variant of the check of resize() that never skips the rebuild.
ExtentNeverUnchanged(current_extent, sd, arg) == FALSE

\* resize() line 230: the rebuild is skipped when the surface reports the
\* extent the swapchain already has.  The arguments are not looked at.
ExtentUnchanged(current_extent, sd, arg) == current_extent = sd.extent

\* resize() lines 222-233: return false at once without a device or when the
\* extent is unchanged, else go on to device.waitIdle().
ResizeCheck ==
    /\ pc = "resize"
    /\ IF ~device
       THEN /\ pc' = "resize_done"
            /\ UNCHANGED rz
       ELSE \E surf \in SurfaceExtents :
               /\ pc' = IF ExtentUnchanged(surf, swapchain_data, rz.arg)
                        THEN "resize_done" ELSE "resize_wait"
               /\ rz' = [rz EXCEPT !.surf = surf]
    /\ UNCHANGED <<frame, device, swapchain_data, per_frame_data, recycled_semaphores,
                   acquire_semaphore, res, index, live, misuse, sem_state, fence_signaled,
                   gpu_queue, sc_count, held, slot_test, pool_test, build_test, presenting, unpresented>>

\* resize() lines 235-240, once device.waitIdle() returned:
\* teardown_framebuffers(), init_swapchain(), init_framebuffers(), return true.
ResizeRebuild ==
    /\ pc = "resize_wait"
    /\ gpu_queue = {}
    /\ \E surf \in SurfaceExtents :
       \E n \in DeviceImageCounts :
          LET fbcalls == teardown_framebuffers(swapchain_data)
              t  == ApplyCalls(live, fbcalls)
              sd0 == [swapchain_data EXCEPT !.framebuffers = <<>>]
              sw == init_swapchain(sd0, per_frame_data, t.live, sc_count, surf, n)
              fb == init_framebuffers(sw.swapchain_data, sw.live)
          IN  /\ swapchain_data' = fb.swapchain_data
              /\ per_frame_data' = sw.per_frame_data
              /\ live' = fb.live
              /\ misuse' = IF t.bad \/ sw.bad THEN misuse \cup {"double_destroy"} ELSE misuse
              /\ sc_count' = sw.sc_count
              /\ fence_signaled' = (fence_signaled \cap fb.live.fence) \cup sw.fences
              /\ sem_state' = KeepLive(sem_state, fb.live)
              /\ rz' = [rz EXCEPT !.rebuilt = TRUE, !.built = surf,
                                   !.calls = fbcalls \o sw.log]
              /\ presenting' = {p \in presenting : p.swapchain \in fb.live.swapchain}
    /\ frame' = IF rz.ret = "external" THEN frame ELSE [frame EXCEPT !.rebuilds = @ + 1]
    /\ held' = {}
    /\ unpresented' = {}
    /\ pc' = "resize_done"
    /\ UNCHANGED <<device, recycled_semaphores, acquire_semaphore, res, index, gpu_queue,
                   slot_test, pool_test, build_test>>

\* resize() returns to its caller.
ResizeDone ==
    /\ pc = "resize_done"
    /\ pc' = ResizeReturn(rz.ret, device)
    /\ rz' = NoResize
    /\ UNCHANGED <<device, swapchain_data, per_frame_data, recycled_semaphores,
                   acquire_semaphore, res, index, live, misuse, sem_state, fence_signaled,
                   gpu_queue, sc_count, held, frame, slot_test, pool_test, build_test, presenting, unpresented>>

\* --------------------------------------------------------------- destructor
\* ~HPPHelloTriangle() starts: device.waitIdle() is entered.
Shutdown ==
    /\ pc = "idle"
    /\ pc' = "destructor"
    /\ UNCHANGED <<device, swapchain_data, per_frame_data, recycled_semaphores,
                   acquire_semaphore, res, index, rz, live, misuse, sem_state, fence_signaled,
                   gpu_queue, sc_count, held, frame, slot_test, pool_test, build_test, presenting, unpresented>>

\* The device calls of ~HPPHelloTriangle() after device.waitIdle(), in order.
DestructorCalls(sd, pfds, pool) ==
    teardown_framebuffers(sd)
    \o Flatten([i \in 1..Len(pfds) |-> teardown_per_frame(pfds[i]).calls])
    \o Flatten([i \in 1..Len(pool) |-> DestroyCall("semaphore", pool[i])])
    \o Flatten([i \in 1..Len(sd.image_views) |-> DestroyCall("image_view", sd.image_views[i])])
    \o (IF sd.swapchain # NULL THEN DestroyCall("swapchain", sd.swapchain) ELSE <<>>)

\* Variant of the destructor that does not wait for the device.
DestructorWaitSkipped(queue) == TRUE

\* ~HPPHelloTriangle() line 79: device.waitIdle() returns once nothing
\* submitted is pending.
DestructorWaitReturns(queue) == queue = {}

\* ~HPPHelloTriangle() once device.waitIdle() returned.
DestructorTeardown ==
    /\ pc = "destructor"
    /\ DestructorWaitReturns(gpu_queue)
    /\ LET t == ApplyCalls(live, DestructorCalls(swapchain_data, per_frame_data,
                                                 recycled_semaphores))
       IN  /\ live' = t.live
           /\ misuse' = IF t.bad THEN misuse \cup {"double_destroy"} ELSE misuse
           /\ sem_state' = KeepLive(sem_state, t.live)
           /\ fence_signaled' = fence_signaled \cap t.live.fence
           /\ sc_count' = [h \in t.live.swapchain |-> sc_count[h]]
    /\ per_frame_data' = <<>>
    /\ device' = FALSE
    /\ held' = {}
    /\ unpresented' = {}
    /\ pc' = "destroyed"
    /\ UNCHANGED <<swapchain_data, recycled_semaphores, acquire_semaphore, res, index, rz,
                   gpu_queue, frame, slot_test, pool_test, build_test, presenting>>

\* ------------------------------------------------------------------- device
\* The GPU completes a submission once the signal its wait semaphore carries
\* arrived: the semaphore is unsignaled again, the submission's fence is
\* signaled.
GpuComplete ==
    /\ \E sub \in gpu_queue :
          /\ sub.wait \in DOMAIN sem_state
          /\ sem_state[sub.wait] = "signal_pending"
          /\ sem_state' = [sem_state EXCEPT ![sub.wait] = "unsignaled"]
          /\ fence_signaled' = fence_signaled \cup {sub.fence}
          /\ gpu_queue' = gpu_queue \ {sub}
    /\ UNCHANGED <<pc, device, swapchain_data, per_frame_data, recycled_semaphores,
                   acquire_semaphore, res, index, rz, live, misuse, sc_count, held,
                   frame, slot_test, pool_test, build_test, presenting, unpresented>>

\* ------------------------------------------------------------ specification
Next ==
    \/ Prepare
    \/ AcquireFirst
    \/ AcquireRetry
    \/ WaitFence
    \/ RenderTriangle
    \/ Present
    \/ WaitIdleReturn
    \/ UpdateReturn
    \/ ResizeRequested
    \/ ResizeCheck
    \/ ResizeRebuild
    \/ ResizeDone
    \/ Shutdown
    \/ DestructorTeardown
    \/ GpuComplete

Spec == Init /\ [][Next]_vars

\* ------------------------------------------------ the semaphore pool alone
\* The pool of acquire_next_image() on its own: semaphores are obtained
\* (lines 250-259) and returned (line 267) in any order.  pool_test counts,
\* for the current run of returns followed by obtains: rel the returns, acq
\* the obtains after them, alloc the semaphores these created, len0 the
\* length of the pool after the last return; out are the semaphores handed
\* out, last what the last obtain saw and did.
PoolStart == [stage |-> "on", rel |-> 0, acq |-> 0, alloc |-> 0, len0 |-> 0,
              out |-> {},
              last |-> [seen |-> FALSE, empty |-> FALSE, created |-> FALSE, taken |-> FALSE]]

InitPool ==
    /\ InitApp
    /\ slot_test = NoSlotTest
    /\ pool_test = PoolStart
    /\ build_test = NoBuildTest

PoolObtain ==
    /\ pool_test.stage = "on"
    /\ recycled_semaphores # <<>> \/ Cardinality(live.semaphore) < MaxPool
    /\ LET got == ObtainSemaphore(recycled_semaphores, live)
       IN  /\ recycled_semaphores' = got.pool
           /\ live' = got.live
           /\ pool_test' = [pool_test EXCEPT
                  !.acq = @ + 1,
                  !.alloc = @ + (IF got.created THEN 1 ELSE 0),
                  !.out = @ \cup {got.semaphore},
                  !.last = [seen |-> TRUE,
                            empty |-> recycled_semaphores = <<>>,
                            created |-> got.created,
                            taken |-> got.semaphore \in Range(recycled_semaphores)]]
    /\ UNCHANGED <<slot_test, build_test, presenting, unpresented>>
    /\ AppUnchanged

PoolReturn ==
    /\ pool_test.stage = "on"
    /\ \E s \in pool_test.out :
          /\ recycled_semaphores' = ReturnSemaphore(recycled_semaphores, s)
          /\ pool_test' = [pool_test EXCEPT
                 !.rel = IF pool_test.acq > 0 THEN 1 ELSE @ + 1,
                 !.acq = 0,
                 !.alloc = 0,
                 !.len0 = Len(ReturnSemaphore(recycled_semaphores, s)),
                 !.out = @ \ {s}]
    /\ UNCHANGED <<live, slot_test, build_test, presenting, unpresented>>
    /\ AppUnchanged

NextPool == PoolObtain \/ PoolReturn

SpecPool == InitPool /\ [][NextPool]_vars

\* ------------------------------------------------- teardown_per_frame alone
\* Handles a field of a slot under test can hold.
TestHandles == {NULL, 1, 2}
TestSlots == [queue_submit_fence : TestHandles,
              primary_command_pool : TestHandles,
              primary_command_buffer : TestHandles,
              swapchain_acquire_semaphore : TestHandles,
              swapchain_release_semaphore : TestHandles]

\* slot_test: the slot as it is now, as it was before the last teardown
\* (previous) and at the start (initial), and the calls of the last teardown.
InitTeardown ==
    /\ InitApp
    /\ pool_test = NoPoolTest
    /\ build_test = NoBuildTest
    /\ slot_test \in {[stage |-> "fresh", slot |-> x, calls |-> <<>>, previous |-> x,
                        initial |-> x] : x \in TestSlots}

TeardownFirst ==
    /\ slot_test.stage = "fresh"
    /\ LET t == teardown_per_frame(slot_test.slot)
       IN  slot_test' = [slot_test EXCEPT !.stage = "once", !.slot = t.slot,
                                          !.calls = t.calls, !.previous = slot_test.slot]
    /\ UNCHANGED <<recycled_semaphores, live, pool_test, build_test, presenting, unpresented>>
    /\ AppUnchanged

TeardownSecond ==
    /\ slot_test.stage = "once"
    /\ LET t == teardown_per_frame(slot_test.slot)
       IN  slot_test' = [slot_test EXCEPT !.stage = "twice", !.slot = t.slot,
                                          !.calls = t.calls, !.previous = slot_test.slot]
    /\ UNCHANGED <<recycled_semaphores, live, pool_test, build_test, presenting, unpresented>>
    /\ AppUnchanged

NextTeardown == TeardownFirst \/ TeardownSecond

SpecTeardown == InitTeardown /\ [][NextTeardown]_vars

\* -------------------------------------------------------- the build alone
\* Largest number of builds in a row on one Surface Set.
MaxBuilds == 2

\* uint32_t values a surface capability is drawn from: the small ones and
\* the ones around 2^31 and 2^32.
U32Samples == {0, 1, 2, 3, 2147483647, -2147483647 - 1, -2, -1}

\* Extents a caller can ask for.
TestExtents == WindowExtents \cup {[width |-> 1, height |-> 1]}

\* build_test: desired is the extent stored before the first build, caps the
\* surface's image count limits; counted / requested the image count
\* create_swapchain() asked for; builds the number of init_swapchain() calls
\* so far, and for the last of them surf what the surface reported, before
\* the extent stored when it started, created the extent its swapchain was
\* created with, prior the last defined extent the surface had reported
\* before it (reported: the same, this build included); sd, pfds, lv, counts
\* the state the builds work on.
InitBuild ==
    /\ InitApp
    /\ slot_test = NoSlotTest
    /\ pool_test = NoPoolTest
    /\ build_test \in
          {[stage |-> "on", desired |-> e,
            caps |-> [minImageCount |-> mn, maxImageCount |-> mx],
            counted |-> FALSE, requested |-> 0,
            builds |-> 0, surf |-> UndefinedExtent, before |-> e, created |-> e,
            prior |-> UndefinedExtent, reported |-> UndefinedExtent,
            sd |-> [swapchain_data EXCEPT !.extent = e],
            pfds |-> <<>>, lv |-> NoLive, counts |-> <<>>] :
              e \in TestExtents, mn \in U32Samples, mx \in U32Samples}

\* create_swapchain() lines 560-570 on the capabilities under test.
CreateSwapchainRequest ==
    /\ build_test.stage = "on"
    /\ ~build_test.counted
    /\ build_test' = [build_test EXCEPT
           !.counted = TRUE,
           !.requested = desired_swapchain_images(build_test.caps.minImageCount,
                                                  build_test.caps.maxImageCount)]
    /\ UNCHANGED <<recycled_semaphores, live, slot_test, pool_test, presenting, unpresented>>
    /\ AppUnchanged

\* init_swapchain() on the state under test, the surface reporting surf.
BuildSurfaceSet ==
    /\ build_test.stage = "on"
    /\ build_test.builds < MaxBuilds
    /\ \E surf \in SurfaceExtents \cup TestExtents :
          LET sw == init_swapchain(build_test.sd, build_test.pfds, build_test.lv,
                                   build_test.counts, surf, 1)
          IN  build_test' = [build_test EXCEPT
                  !.builds = @ + 1,
                  !.surf = surf,
                  !.before = build_test.sd.extent,
                  !.created = sw.created_extent,
                  !.prior = build_test.reported,
                  !.reported = IF surf.width = UndefinedWidth THEN @ ELSE surf,
                  !.sd = sw.swapchain_data,
                  !.pfds = sw.per_frame_data,
                  !.lv = sw.live,
                  !.counts = sw.sc_count]
    /\ UNCHANGED <<recycled_semaphores, live, slot_test, pool_test, presenting, unpresented>>
    /\ AppUnchanged

NextBuild == CreateSwapchainRequest \/ BuildSurfaceSet

SpecBuild == InitBuild /\ [][NextBuild]_vars

\* ------------------------------------- presents that stay outstanding
\* presentKHR whose semaphore wait is still outstanding when it returns:
\* presentKHR takes no fence, and the waits of lines 195, 235 and 819 are on
\* the work submitted with one.
PresentQueued == PresentKHR(TRUE)

\* The presentation engine consumes a present once the submit that signals
\* its semaphore has completed.
PresentComplete ==
    /\ \E p \in presenting :
          /\ \A sub \in gpu_queue : sub.signal # p.wait
          /\ presenting' = presenting \ {p}
    /\ UNCHANGED <<pc, device, swapchain_data, per_frame_data, recycled_semaphores,
                   acquire_semaphore, res, index, rz, live, misuse, sem_state,
                   fence_signaled, gpu_queue, sc_count, held, frame, slot_test, pool_test,
                   build_test, unpresented>>

\* update() and resize() with presents that stay outstanding.
NextPresent ==
    \/ Prepare
    \/ AcquireFirst
    \/ AcquireRetry
    \/ WaitFence
    \/ RenderTriangle
    \/ PresentQueued
    \/ WaitIdleReturn
    \/ UpdateReturn
    \/ ResizeCheck
    \/ ResizeRebuild
    \/ ResizeDone
    \/ GpuComplete
    \/ PresentComplete

SpecPresent == Init /\ [][NextPresent]_vars

\* ------------------------------------------------ update() under fairness
\* acquireNextImageKHR (line 263, timeout UINT64_MAX) has an image to deliver.
ImageAvailable ==
    /\ swapchain_data.swapchain \in DOMAIN sc_count
    /\ Available(sc_count[swapchain_data.swapchain], held, presenting) # {}

\* The retry of line 190 returns: it is bound to when an image is available;
\* with none it returns only if the device reports an error.
AcquireRetryReturns == ImageAvailable /\ AcquireRetry

\* A step of the host thread inside update(), the rebuild of resize() apart.
\* The thread is at one place at a time, so at most one of these is enabled.
HostStep ==
    \/ AcquireRetryReturns
    \/ WaitFence
    \/ RenderTriangle
    \/ PresentQueued
    \/ WaitIdleReturn
    \/ UpdateReturn
    \/ ResizeCheck
    \/ ResizeDone

\* device.waitIdle() of resize() line 235 has returned or can return.
RebuildEnabled == pc = "resize_wait" /\ gpu_queue = {}

\* WF_vars(ResizeRebuild) written out: ResizeRebuild is enabled exactly when
\* RebuildEnabled holds, and every ResizeRebuild step ends it.
RebuildFair == []<>(~RebuildEnabled)

\* The host thread runs on and every wait returns once what it waits for
\* happened; the GPU completes the work whose wait semaphore is signaled;
\* the presentation engine consumes the presents it can.
Fairness ==
    /\ WF_vars(HostStep)
    /\ RebuildFair
    /\ WF_vars(GpuComplete)
    /\ WF_vars(PresentComplete)

SpecLive == Init /\ [][NextPresent]_vars /\ Fairness

\* ------------------------------------------------- a build that fails
\* The calls of init_swapchain() that report a failure by throwing: the
\* capability query (line 637), create_swapchain() (line 645: the query of
\* line 560 or createSwapchainKHR of line 614), the image query on the old
\* swapchain (line 654) and the image query on the new one (line 670).
BuildFailurePoints == {"caps", "create", "old_images", "new_images"}

\* init_swapchain() left by an exception at the call `at`: the members as
\* the statements before that call left them.  No handler runs, the file has
\* no try block.
init_swapchain_throws(sd, pfds, lv, counts, surf, n, at) ==
    LET swapchain_extent == swapchain_extent_of(surf, sd.extent)
        old_swapchain == sd.swapchain
        new_swapchain == NewHandle(lv.swapchain)
        lv1 == [lv EXCEPT !.swapchain = @ \cup {new_swapchain}]
        counts1 == [h \in lv1.swapchain |-> IF h = new_swapchain THEN n ELSE counts[h]]
        view_calls == Flatten([i \in 1..Len(sd.image_views) |->
                                  DestroyCall("image_view", sd.image_views[i])])
        image_count == IF old_swapchain # NULL THEN counts[old_swapchain] ELSE 0
        torn == [i \in 1..image_count |-> teardown_per_frame(pfds[i])]
        old_calls == IF old_swapchain # NULL
                     THEN view_calls
                          \o Flatten([i \in 1..image_count |-> torn[i].calls])
                          \o DestroyCall("swapchain", old_swapchain)
                     ELSE <<>>
        views_gone == ApplyCalls(lv1, view_calls)
        old_gone == ApplyCalls(lv1, old_calls)
    IN  CASE at \in {"caps", "create"} ->
                [swapchain_data |-> sd, per_frame_data |-> pfds, live |-> lv,
                 bad |-> FALSE, sc_count |-> counts]
          [] at = "old_images" ->
                [swapchain_data |-> [sd EXCEPT !.swapchain = new_swapchain],
                 per_frame_data |-> pfds,
                 live |-> views_gone.live,
                 bad |-> views_gone.bad,
                 sc_count |-> counts1]
          [] at = "new_images" ->
                [swapchain_data |->
                     [sd EXCEPT !.swapchain = new_swapchain,
                                !.extent = swapchain_extent,
                                !.image_views = IF old_swapchain # NULL THEN <<>> ELSE @],
                 per_frame_data |->
                     [i \in 1..Len(pfds) |-> IF i <= image_count THEN torn[i].slot ELSE pfds[i]],
                 live |-> old_gone.live,
                 bad |-> old_gone.bad,
                 sc_count |-> [h \in old_gone.live.swapchain |-> counts1[h]]]

\* What a failed build records: the call that failed and the swapchains
\* that were live when the build began.
BuildFailed(at, lv) == [stage |-> "failed", at |-> at, prior |-> lv.swapchain]

\* prepare() lines 153-163 with init_swapchain() throwing: the extent and the
\* device are set, the exception leaves prepare().
PrepareFails ==
    /\ pc = "constructed"
    /\ \E window \in WindowExtents, surf \in SurfaceExtents,
          at \in BuildFailurePoints \ {"old_images"} :
       \E n \in DeviceImageCounts :
          LET sd0 == [swapchain_data EXCEPT !.extent = window]
              sw == init_swapchain_throws(sd0, per_frame_data, live, sc_count, surf, n, at)
          IN  /\ swapchain_data' = sw.swapchain_data
              /\ per_frame_data' = sw.per_frame_data
              /\ live' = sw.live
              /\ misuse' = IF sw.bad THEN misuse \cup {"double_destroy"} ELSE misuse
              /\ sc_count' = sw.sc_count
              /\ fence_signaled' = fence_signaled \cap sw.live.fence
              /\ sem_state' = KeepLive(sem_state, sw.live)
              /\ build_test' = BuildFailed(at, live)
    /\ device' = TRUE
    /\ pc' = "build_failed"
    /\ UNCHANGED <<recycled_semaphores, acquire_semaphore, res, index, rz, gpu_queue,
                   held, frame, slot_test, pool_test, presenting, unpresented>>

\* resize() lines 235-238 with init_swapchain() throwing: the framebuffers
\* are destroyed already, the exception leaves resize().
ResizeRebuildFails ==
    /\ pc = "resize_wait"
    /\ gpu_queue = {}
    /\ \E surf \in SurfaceExtents, at \in BuildFailurePoints :
       \E n \in DeviceImageCounts :
          LET fbcalls == teardown_framebuffers(swapchain_data)
              t  == ApplyCalls(live, fbcalls)
              sd0 == [swapchain_data EXCEPT !.framebuffers = <<>>]
              sw == init_swapchain_throws(sd0, per_frame_data, t.live, sc_count, surf, n, at)
          IN  /\ swapchain_data' = sw.swapchain_data
              /\ per_frame_data' = sw.per_frame_data
              /\ live' = sw.live
              /\ misuse' = IF t.bad \/ sw.bad THEN misuse \cup {"double_destroy"} ELSE misuse
              /\ sc_count' = sw.sc_count
              /\ fence_signaled' = fence_signaled \cap sw.live.fence
              /\ sem_state' = KeepLive(sem_state, sw.live)
              /\ build_test' = BuildFailed(at, live)
    /\ pc' = "build_failed"
    /\ UNCHANGED <<device, recycled_semaphores, acquire_semaphore, res, index, rz, gpu_queue,
                   held, frame, slot_test, pool_test, presenting, unpresented>>

\* prepare() and resize() with builds that succeed or fail; a failed build
\* ends the run.
NextFail ==
    \/ Prepare
    \/ PrepareFails
    \/ ResizeRequested
    \/ ResizeCheck
    \/ ResizeRebuild
    \/ ResizeRebuildFails
    \/ ResizeDone

SpecFail == Init /\ [][NextFail]_vars

\* ================================================================== claims
ImageCount == sc_count[swapchain_data.swapchain]
Pooled == Range(recycled_semaphores)
SlotAcquireSemaphores ==
    {per_frame_data[i].swapchain_acquire_semaphore : i \in 1..Len(per_frame_data)} \ {NULL}

\* A semaphore is bound to pending GPU work: it carries the signal of an
\* acquire request that no wait consumed, or a queued submission waits on it.
BoundToGpuWork(s) ==
    \/ s \in DOMAIN sem_state /\ sem_state[s] = "signal_pending"
    \/ \E sub \in gpu_queue : sub.wait = s

\* C1: between calls of update() and resize(), an acquire semaphore is in
\* recycled_semaphores if and only if it is not bound to pending GPU work.
C1_PooledIffNotBound ==
    pc = "idle" =>
        \A s \in Pooled \cup SlotAcquireSemaphores : (s \in Pooled) <=> ~BoundToGpuWork(s)

\* Work submitted from slot i that the GPU has not completed.
SlotPending(i) ==
    \E sub \in gpu_queue : sub.command_buffer = per_frame_data[i].primary_command_buffer

\* C2: when acquire_next_image() has reset the slot's command pool and
\* render_triangle() is about to record, no submission of that slot is pending.
C2_NoReuseWhilePending == pc = "render" => ~SlotPending(index)

\* C2 witness: a slot that was submitted before is about to be re-recorded
\* while work of another slot is still pending.
C2_Witness ==
    /\ pc = "render"
    /\ per_frame_data[index].swapchain_release_semaphore # NULL
    /\ gpu_queue # {}

\* Every place that holds a semaphore, fence or command pool handle.
SemaphoreHolders ==
    recycled_semaphores
    \o (IF acquire_semaphore # NULL THEN <<acquire_semaphore>> ELSE <<>>)
    \o Flatten([i \in 1..Len(per_frame_data) |->
           (IF per_frame_data[i].swapchain_acquire_semaphore # NULL
            THEN <<per_frame_data[i].swapchain_acquire_semaphore>> ELSE <<>>)
           \o (IF per_frame_data[i].swapchain_release_semaphore # NULL
               THEN <<per_frame_data[i].swapchain_release_semaphore>> ELSE <<>>)])
FenceHolders == [i \in 1..Len(per_frame_data) |-> per_frame_data[i].queue_submit_fence]
PoolHolders == [i \in 1..Len(per_frame_data) |-> per_frame_data[i].primary_command_pool]
NoDuplicates(q) == \A i, j \in 1..Len(q) : i # j => q[i] # q[j]

\* C3: no handle is destroyed twice or used after its destruction; while the
\* application lives every live semaphore, fence and command pool is held in
\* exactly one place (the pool or one field of one slot); after the
\* destructor nothing is left alive.
C3_CreatedDestroyedOnce ==
    /\ misuse = {}
    /\ pc = "destroyed" => live = NoLive
    /\ pc # "destroyed" =>
          /\ NoDuplicates(SemaphoreHolders) /\ Range(SemaphoreHolders) = live.semaphore
          /\ NoDuplicates(FenceHolders) /\ Range(FenceHolders) = live.fence
          /\ NoDuplicates(PoolHolders) /\ Range(PoolHolders) = live.command_pool

\* C3 witness: the destructor ran on an application whose swapchain had been
\* rebuilt (the second swapchain handle) and whose pool was not empty.
C3_Witness ==
    /\ pc = "destroyed"
    /\ recycled_semaphores # <<>>
    /\ swapchain_data.swapchain = 2

\* The retry that follows a suboptimal first acquire has returned.
C4_RetryDone == frame.first = "eSuboptimalKHR" /\ frame.second # "none"

\* The resize() that follows a suboptimal first acquire is about to return.
C4_ResizeDone == pc = "resize_done" /\ rz.ret = "retry" /\ frame.first = "eSuboptimalKHR"

\* After a suboptimal first acquire: one resize(), one retry, and nothing
\* else when the retry fails.
C4_OneRetryThenGiveUp ==
    /\ frame.acquires <= 2
    /\ (frame.first = "eSuboptimalKHR" /\ pc \in {"wait_fence", "render", "present", "return"})
          => frame.acquires = 2
    /\ (C4_RetryDone /\ frame.presents = 0) => frame.rebuilds <= 1
    /\ (C4_RetryDone /\ frame.second # "eSuccess")
          => /\ frame.submits = 0 /\ frame.presents = 0
             /\ pc \in {"wait_idle", "return"}

\* C4 as claimed: a suboptimal first acquire is followed by exactly one
\* rebuild, at the previous extent, and exactly one retry; a failed retry
\* gives up.
C4_Original ==
    /\ C4_OneRetryThenGiveUp
    /\ C4_ResizeDone =>
          /\ rz.rebuilt /\ frame.rebuilds = 1
          /\ swapchain_data.extent = rz.before.swapchain_data.extent

\* C4 amended: a suboptimal first acquire is followed by one resize() that
\* rebuilds exactly when the surface reports an extent other than the
\* swapchain's, at the extent reported to the rebuild (the previous one if
\* that is the undefined extent), and by exactly one retry; a failed retry
\* gives up.
C4_RebuildOnlyOnExtentChange ==
    /\ C4_OneRetryThenGiveUp
    /\ C4_ResizeDone =>
          /\ rz.rebuilt <=> rz.surf # rz.before.swapchain_data.extent
          /\ frame.rebuilds = (IF rz.rebuilt THEN 1 ELSE 0)
          /\ swapchain_data.extent =
                (IF ~rz.rebuilt \/ rz.built.width = UndefinedWidth
                 THEN rz.before.swapchain_data.extent ELSE rz.built)

\* C4 witness: after a suboptimal first acquire the Surface Set was rebuilt
\* at a new extent.
C4_Witness ==
    /\ C4_ResizeDone
    /\ rz.rebuilt
    /\ swapchain_data.extent # rz.before.swapchain_data.extent

\* C5: one update() asks for an image at most twice, the second time only
\* after a stale first result, and presents at most once; after the present
\* it only rebuilds and returns.
C5_AcquireTwicePresentOnce ==
    /\ frame.acquires <= 2
    /\ frame.acquires = 2 => IsStale(frame.first)
    /\ frame.presents <= 1
    /\ frame.presents = 1 => pc \in {"resize", "resize_wait", "resize_done", "return"}

\* C5 witness: an update() that retried the acquire, presented with a stale
\* result and rebuilt for it is about to return.
C5_Witness ==
    /\ pc = "return"
    /\ frame.acquires = 2
    /\ frame.presents = 1
    /\ IsStale(res)
    /\ frame.rebuilds >= 1

\* The identity of the Surface Set and of the slots.
Identity(sd, pfds) == <<sd.swapchain, sd.image_views, sd.framebuffers, pfds>>
IdentityKept ==
    Identity(swapchain_data, per_frame_data)
        = Identity(rz.before.swapchain_data, rz.before.per_frame_data)

\* C6 as claimed: resize(w, h) with (w, h) equal to the live extent leaves the
\* Surface Set and the slots as they are.
C6_Original ==
    (pc = "resize_done" /\ device /\ rz.arg = rz.before.swapchain_data.extent) => IdentityKept

\* C6 amended: resize(w, h), whatever w and h, leaves the Surface Set and the
\* slots as they are when the surface reports the live extent as its current
\* extent.
C6_NoOpOnReportedExtent ==
    (pc = "resize_done" /\ device /\ rz.surf = rz.before.swapchain_data.extent)
        => IdentityKept /\ ~rz.rebuilt

\* C6 witness: a resize() with other arguments than the live extent returned
\* without a rebuild because the surface reported the live extent.
C6_Witness ==
    /\ pc = "resize_done"
    /\ device
    /\ rz.surf = rz.before.swapchain_data.extent
    /\ rz.arg # rz.before.swapchain_data.extent

\* C7: while the device exists, image views, framebuffers and slots are as
\* many as the images of the live swapchain, and an acquired index is a valid
\* index of per_frame_data and framebuffers.
C7_CountsMatch ==
    device =>
        /\ Len(swapchain_data.image_views) = ImageCount
        /\ Len(swapchain_data.framebuffers) = ImageCount
        /\ Len(per_frame_data) = ImageCount
        /\ pc \in {"wait_fence", "render", "present"} =>
              index \in 1..Len(per_frame_data) /\ index \in 1..Len(swapchain_data.framebuffers)

\* C7 witness: a rebuild that changed the image count has just finished.
C7_Witness ==
    /\ pc = "resize_done"
    /\ rz.rebuilt
    /\ Len(per_frame_data) # Len(rz.before.per_frame_data)
    /\ Len(swapchain_data.framebuffers) = 2

\* A full frame cycle (acquire success, record, submit, present success) is
\* about to return control.
FullCycleReturns ==
    pc = "return" /\ frame.submits = 1 /\ frame.presents = 1 /\ res = "eSuccess"

\* C8 as claimed: a full frame cycle returns with at most image_count - 1
\* semaphores in the pool.
C8_Original == FullCycleReturns => Len(recycled_semaphores) <= ImageCount - 1

\* C8 amended: a full frame cycle returns with at most one semaphore in the
\* pool, which is at most image_count - 1 unless the swapchain has one image.
C8_PoolAtMostOne ==
    FullCycleReturns =>
        /\ Len(recycled_semaphores) <= 1
        /\ ImageCount >= 2 => Len(recycled_semaphores) <= ImageCount - 1

\* C8 witness: a full frame cycle on two images returns with a pooled semaphore.
C8_Witness == FullCycleReturns /\ ImageCount = 2 /\ Len(recycled_semaphores) = 1

\* C9: obtaining a semaphore creates one if and only if the pool is empty,
\* and otherwise takes one out of the pool; so the N obtains that follow N
\* returns create nothing and leave the pool N shorter, one per obtain.
C9_PoolReuseLaw ==
    /\ pool_test.last.seen =>
          /\ pool_test.last.created <=> pool_test.last.empty
          /\ pool_test.last.taken <=> ~pool_test.last.empty
    /\ (pool_test.rel > 0 /\ pool_test.acq <= pool_test.rel) =>
          /\ pool_test.alloc = 0
          /\ Len(recycled_semaphores) = pool_test.len0 - pool_test.acq

\* C9 witness: three returns were followed by three obtains.
C9_Witness == pool_test.rel = 3 /\ pool_test.acq = 3

\* C10: after one teardown_per_frame every field of the slot is null, and a
\* second one issues no call and changes nothing.
C10_TeardownIdempotent ==
    /\ slot_test.stage \in {"once", "twice"} => slot_test.slot = FrameData
    /\ slot_test.stage = "twice" =>
          slot_test.calls = <<>> /\ slot_test.slot = slot_test.previous

\* C10 witness: a fully built slot was torn down twice.
C10_Witness ==
    /\ slot_test.stage = "twice"
    /\ \A f \in DOMAIN slot_test.initial : slot_test.initial[f] # NULL

\* The last build under test ran with the surface reporting the undefined
\* extent.
BuildSawUndefined == build_test.builds >= 1 /\ build_test.surf.width = UndefinedWidth

\* C11 as claimed: build(E).extent = E unless the surface reports the
\* undefined extent, and then it is the last extent the surface reported.
C11_Original ==
    build_test.builds >= 1 =>
        IF build_test.surf.width # UndefinedWidth
        THEN build_test.sd.extent = build_test.before
        ELSE build_test.prior.width # UndefinedWidth
                => build_test.sd.extent = build_test.prior

\* C11 amended: build(E).extent = E exactly when the surface reports the
\* undefined extent or E itself; under the undefined extent the result is
\* also the last extent the surface reported, if it reported one before.
C11_DesiredOnlyIfUndefined ==
    build_test.builds >= 1 =>
        /\ (build_test.sd.extent = build_test.before)
              <=> (build_test.surf.width = UndefinedWidth
                      \/ build_test.surf = build_test.before)
        /\ (BuildSawUndefined /\ build_test.prior.width # UndefinedWidth)
              => build_test.sd.extent = build_test.prior

\* C11 witness: a second build under the undefined extent kept the extent the
\* surface reported to the first, which was not the one asked for at first.
C11_Witness ==
    /\ build_test.builds = 2
    /\ BuildSawUndefined
    /\ build_test.prior.width # UndefinedWidth
    /\ build_test.prior # build_test.desired
    /\ build_test.sd.extent = build_test.prior

\* The larger of two uint32_t values.
U32Max(a, b) == IF U32Greater(a, b) THEN a ELSE b

\* The image count of the claim: max(min, min + 1), or max_supported when
\* that is nonzero and smaller.
ClaimedImages(min_supported, max_supported) ==
    LET wanted == U32Max(min_supported, U32Inc(min_supported))
    IN  IF max_supported # 0 /\ U32Greater(wanted, max_supported)
        THEN max_supported ELSE wanted

\* C12: for every pair of uint32_t capabilities the image count asked for is
\* max(min, min + 1), replaced by max when max is nonzero and smaller.
C12_RequestedImages ==
    build_test.counted =>
        build_test.requested = ClaimedImages(build_test.caps.minImageCount,
                                             build_test.caps.maxImageCount)

\* C20: a newly built Surface Set has the extent the surface reports, or
\* the extent stored before the build when the surface reports the undefined
\* extent; the stored extent is the one the swapchain was created with.
C20_ExtentFromSurface ==
    build_test.builds >= 1 =>
        /\ build_test.sd.extent =
              (IF build_test.surf = UndefinedExtent
               THEN build_test.before ELSE build_test.surf)
        /\ build_test.sd.extent = build_test.created

\* C20 witness: a build took the extent the surface reported over the
\* different extent stored before it.
C20_Witness ==
    /\ build_test.builds >= 1
    /\ build_test.surf # UndefinedExtent
    /\ build_test.surf # build_test.before
    /\ build_test.sd.extent = build_test.surf

HardAcquireFailure ==
    /\ pc \in {"wait_idle", "return"}
    /\ res = "eErrorSurfaceLostKHR"
    /\ frame.presents = 0

\* C15: an acquire that fails hard leaves the Surface Set and the slots as
\* they are and sends update() to queue.waitIdle(); from there update() only
\* waits until the queue is idle and returns: nothing is recorded, submitted
\* or presented and nothing is rebuilt, and a hard failure of the first
\* acquire is not retried.
C15_HardFailureSkipsFrame ==
    [][/\ (pc \in {"idle", "retry"} /\ res' = "eErrorSurfaceLostKHR")
             => /\ pc' = "wait_idle"
                /\ UNCHANGED <<swapchain_data, per_frame_data>>
       /\ pc = "wait_idle"
             => /\ pc' \in {"wait_idle", "return"}
                /\ pc' = "return" => gpu_queue = {}
                /\ UNCHANGED <<swapchain_data, per_frame_data, frame>>
       /\ HardAcquireFailure
             => /\ frame.submits = 0
                /\ frame.first = "eErrorSurfaceLostKHR"
                      => frame.acquires = 1 /\ frame.rebuilds = 0
                /\ pc' \in {"wait_idle", "return", "idle"}
                /\ UNCHANGED <<swapchain_data, per_frame_data>>]_vars

\* C15 witness: an update() on slots that were used before returns after a
\* hard failure of its first acquire.
C15_Witness ==
    /\ HardAcquireFailure
    /\ pc = "return"
    /\ frame.acquires = 1
    /\ \E i \in 1..Len(per_frame_data) : per_frame_data[i].swapchain_release_semaphore # NULL

\* C16: a successful acquire_next_image() takes nothing but one semaphore
\* out of the pool before its fence wait; then slot index gets the semaphore
\* handed to the acquire request (the one carrying its signal), the pool
\* gains the slot's previous semaphore exactly if there was one and never
\* the new one, and no other slot's acquire semaphore changes.
C16_SuccessStoresNewRecyclesOld ==
    [][/\ (pc \in {"idle", "retry"} /\ pc' = "wait_fence")
             => /\ per_frame_data' = per_frame_data
                /\ Range(recycled_semaphores') \subseteq Range(recycled_semaphores)
                /\ acquire_semaphore' \notin Range(recycled_semaphores')
       /\ (pc = "wait_fence" /\ pc' = "render")
             => LET old == per_frame_data[index].swapchain_acquire_semaphore
                IN  /\ sem_state[acquire_semaphore] = "signal_pending"
                    /\ per_frame_data'[index].swapchain_acquire_semaphore = acquire_semaphore
                    /\ recycled_semaphores' = IF old # NULL
                                              THEN Append(recycled_semaphores, old)
                                              ELSE recycled_semaphores
                    /\ acquire_semaphore \notin Range(recycled_semaphores')
                    /\ \A j \in 1..Len(per_frame_data) :
                          j # index => per_frame_data'[j].swapchain_acquire_semaphore
                                          = per_frame_data[j].swapchain_acquire_semaphore]_vars

\* C16 witness: a slot that held a semaphore was acquired again: the pool
\* ends with a semaphore and the slot holds another one.
C16_Witness ==
    /\ pc = "render"
    /\ per_frame_data[index].swapchain_release_semaphore # NULL
    /\ recycled_semaphores # <<>>
    /\ per_frame_data[index].swapchain_acquire_semaphore \notin Range(recycled_semaphores)

\* This step is a call of acquire_next_image() up to its first return or wait.
AcquireStep == pc \in {"idle", "retry"} /\ frame'.acquires = frame.acquires + 1

\* C17: an acquire_next_image() that returns a non-success result leaves the
\* pool as it found it, or holding the one semaphore it created if the pool
\* was empty, and touches no slot and no fence and does not go on to the
\* fence wait.
C17_FailureReturnsSemaphore ==
    [][(AcquireStep /\ res' # "eSuccess")
          => /\ recycled_semaphores # <<>> => recycled_semaphores' = recycled_semaphores
             /\ recycled_semaphores = <<>>
                   => /\ Len(recycled_semaphores') = 1
                      /\ recycled_semaphores'[1] \in live'.semaphore \ live.semaphore
             /\ acquire_semaphore' = NULL
             /\ per_frame_data' = per_frame_data
             /\ fence_signaled' = fence_signaled
             /\ gpu_queue' = gpu_queue
             /\ pc' \in {"resize", "wait_idle"}]_vars

\* C17 witness: the first acquire came back out of date on an empty pool,
\* and the semaphore created for it is in the pool.
C17_Witness ==
    /\ pc = "resize"
    /\ rz.ret = "retry"
    /\ res = "eErrorOutOfDateKHR"
    /\ Len(recycled_semaphores) = 1
    /\ Cardinality(live.semaphore) = 1

\* This step is the presentKHR of update().
PresentStep == pc = "present" /\ frame'.presents = frame.presents + 1

\* The resize() that follows a stale present is about to return.
C18_ResizeDone == pc = "resize_done" /\ rz.ret = "end"

\* What C18 says of a present that fails otherwise: the error is only
\* reported; update() returns with the Surface Set, the slots and the pool
\* as they were after the submit.  And a stale present calls resize().
C18_PresentOutcomes ==
    /\ (PresentStep /\ IsStale(res')) => pc' = "resize"
    /\ (PresentStep /\ ~IsStale(res'))
          => /\ pc' = "return"
             /\ UNCHANGED <<swapchain_data, per_frame_data, recycled_semaphores>>
    /\ (pc = "return" /\ frame.presents = 1 /\ ~IsStale(res))
          => UNCHANGED <<swapchain_data, per_frame_data, recycled_semaphores>>

\* C18 as claimed: after a stale present the Surface Set is rebuilt before
\* update() returns.
C18_Original ==
    [][/\ C18_PresentOutcomes
       /\ C18_ResizeDone => rz.rebuilt]_vars

\* C18 amended: after a stale present resize() runs before update() returns
\* and rebuilds the Surface Set exactly if the surface reports another extent
\* than the swapchain's; after any other failed present nothing changes.
C18_StalePresentResizes ==
    [][/\ C18_PresentOutcomes
       /\ C18_ResizeDone
             => /\ rz.rebuilt <=> rz.surf # rz.before.swapchain_data.extent
                /\ ~rz.rebuilt => /\ swapchain_data = rz.before.swapchain_data
                                  /\ per_frame_data = rz.before.per_frame_data
                /\ pc' \in {"resize_done", "return"}]_vars

\* C18 witness: the resize() after a stale present returns without a rebuild.
C18_Witness == C18_ResizeDone /\ ~rz.rebuilt /\ IsStale(res)

\* A slot as init_swapchain() builds it: live fence, command pool and
\* command buffer, no semaphores.
FreshSlot(pfd, lv) ==
    /\ pfd.queue_submit_fence \in lv.fence
    /\ pfd.primary_command_pool \in lv.command_pool
    /\ pfd.primary_command_buffer \in lv.command_buffer
    /\ pfd.swapchain_acquire_semaphore = NULL
    /\ pfd.swapchain_release_semaphore = NULL

\* C19: resize() returns at once, changing nothing and waiting for nothing,
\* exactly when there is no device or the surface reports the extent of the
\* live Surface Set; otherwise it changes nothing until the device is idle
\* and then leaves a new swapchain, only new framebuffers, one per image,
\* only new slots, one per image, and reports the rebuild.
C19_ResizeEffect ==
    [][/\ (pc = "resize" /\ pc' # "resize")
             => /\ pc' \in {"resize_done", "resize_wait"}
                /\ pc' = "resize_done"
                      <=> (~device \/ rz'.surf = swapchain_data.extent)
                /\ pc' = "resize_done" => ~rz'.rebuilt
                /\ UNCHANGED <<device, swapchain_data, per_frame_data, recycled_semaphores,
                               live, sem_state, fence_signaled, gpu_queue, sc_count, held>>
       /\ (pc = "resize" /\ pc' = "resize")
             => UNCHANGED <<swapchain_data, per_frame_data, recycled_semaphores, live>>
       /\ pc = "resize_wait"
             => /\ pc' \in {"resize_wait", "resize_done"}
                /\ pc' = "resize_wait"
                      => UNCHANGED <<swapchain_data, per_frame_data, recycled_semaphores, live>>
       /\ (pc = "resize_wait" /\ pc' = "resize_done")
             => /\ gpu_queue = {}
                /\ rz'.rebuilt
                /\ swapchain_data.swapchain \notin live'.swapchain
                /\ live'.swapchain = {swapchain_data'.swapchain}
                /\ live'.framebuffer = Range(swapchain_data'.framebuffers)
                /\ Len(swapchain_data'.framebuffers) = sc_count'[swapchain_data'.swapchain]
                /\ Len(per_frame_data') = sc_count'[swapchain_data'.swapchain]
                /\ \A i \in 1..Len(per_frame_data') : FreshSlot(per_frame_data'[i], live')
                /\ live'.fence = {per_frame_data'[i].queue_submit_fence :
                                     i \in 1..Len(per_frame_data')}
                /\ live'.semaphore = Range(recycled_semaphores')]_vars

\* C19 witness: a resize() with a device returned without a rebuild while
\* submitted work was still pending.
C19_Witness ==
    /\ pc = "resize_done"
    /\ device
    /\ ~rz.rebuilt
    /\ gpu_queue # {}

\* C13: when a build or rebuild of the Surface Set fails, no partial state is
\* left live: no swapchain the failed build created is still live, image
\* views or FrameSlots are not kept without their framebuffers, and a stored
\* swapchain handle has its image views.
C13_NoPartialState ==
    (pc = "build_failed")
        => /\ live.swapchain \subseteq build_test.prior
           /\ swapchain_data.framebuffers = <<>>
                 => (swapchain_data.image_views = <<>> /\ per_frame_data = <<>>)
           /\ swapchain_data.swapchain # NULL
                 => /\ swapchain_data.swapchain \in live.swapchain
                    /\ Len(swapchain_data.image_views) = sc_count[swapchain_data.swapchain]
                    /\ Range(swapchain_data.image_views) \subseteq live.image_view

\* The fields of a slot in the order the claim gives, with the kind of
\* object each holds.
TeardownOrder ==
    <<[field |-> "queue_submit_fence", kind |-> "fence"],
      [field |-> "primary_command_buffer", kind |-> "command_buffer"],
      [field |-> "primary_command_pool", kind |-> "command_pool"],
      [field |-> "swapchain_acquire_semaphore", kind |-> "semaphore"],
      [field |-> "swapchain_release_semaphore", kind |-> "semaphore"]>>

\* The destroy calls the claim expects for slot pfd: one per present field,
\* in the order above.
RECURSIVE OrderedDestroys(_, _)
OrderedDestroys(pfd, order) ==
    IF order = <<>> THEN <<>>
    ELSE (IF pfd[Head(order).field] # NULL
          THEN <<[op |-> "destroy", kind |-> Head(order).kind,
                  handle |-> pfd[Head(order).field]]>>
          ELSE <<>>)
         \o OrderedDestroys(pfd, Tail(order))

\* C21: a teardown of a FrameSlot destroys exactly the objects that are
\* present, in the order fence, command buffer, command pool, acquire
\* semaphore, release semaphore; no command buffer is freed after a command
\* pool was destroyed; every field is absent when the teardown returns.
C21_TeardownOrder ==
    slot_test.stage \in {"once", "twice"}
        => /\ slot_test.calls = OrderedDestroys(slot_test.previous, TeardownOrder)
           /\ \A i, j \in 1..Len(slot_test.calls) :
                 (slot_test.calls[i].kind = "command_pool"
                  /\ slot_test.calls[j].kind = "command_buffer") => j < i
           /\ \A f \in DOMAIN slot_test.slot : slot_test.slot[f] = NULL

\* C21 witness: a slot with all five objects, the two semaphores distinct,
\* was torn down once.
C21_Witness ==
    /\ slot_test.stage = "once"
    /\ \A f \in DOMAIN slot_test.previous : slot_test.previous[f] # NULL
    /\ slot_test.previous.swapchain_acquire_semaphore
           # slot_test.previous.swapchain_release_semaphore
    /\ Len(slot_test.calls) = 5

\* A step in which resize() rebuilt the Surface Set.
RebuildStep == pc = "resize_wait" /\ pc' = "resize_done"

\* Place of a device call in the order of a rebuild: framebuffers, the new
\* swapchain, the old image views, the old slots' objects, the old swapchain.
RebuildRank(c) ==
    CASE c.kind = "framebuffer" -> 0
      [] c.kind = "swapchain" /\ c.op = "create" -> 1
      [] c.kind = "image_view" -> 2
      [] c.kind \in {"fence", "command_buffer", "command_pool", "semaphore"} -> 3
      [] c.kind = "swapchain" /\ c.op = "destroy" -> 4

\* The handles of one kind that the calls destroy.
Destroyed(calls, kind) ==
    {calls[i].handle : i \in {j \in 1..Len(calls) : calls[j].op = "destroy"
                                                     /\ calls[j].kind = kind}}

\* The calls of a rebuild come in the order of the claim: the new swapchain
\* is created with the old one as oldSwapchain while the old one is live,
\* then the old image views, then the old slots, then the old swapchain go.
RebuildInOrder(calls, old_sd, old_pfds, lv) ==
    /\ \A i, j \in 1..Len(calls) : i < j => RebuildRank(calls[i]) <= RebuildRank(calls[j])
    /\ \E i \in 1..Len(calls) :
          /\ calls[i].op = "create"
          /\ calls[i].oldSwapchain = old_sd.swapchain
          /\ old_sd.swapchain \in lv.swapchain
          /\ calls[i].handle # old_sd.swapchain
    /\ Destroyed(calls, "image_view") = Range(old_sd.image_views)
    /\ Destroyed(calls, "fence") = {old_pfds[i].queue_submit_fence : i \in 1..Len(old_pfds)}
    /\ Destroyed(calls, "command_pool")
          = {old_pfds[i].primary_command_pool : i \in 1..Len(old_pfds)}
    /\ Destroyed(calls, "semaphore")
          = ({old_pfds[i].swapchain_acquire_semaphore : i \in 1..Len(old_pfds)}
             \cup {old_pfds[i].swapchain_release_semaphore : i \in 1..Len(old_pfds)}) \ {NULL}
    /\ Last(calls) = DestroyCall("swapchain", old_sd.swapchain)[1]

\* No submission that the GPU has not completed uses an object the calls
\* destroy.
NoGpuWorkOnDestroyed(calls, queue) ==
    \A sub \in queue :
       /\ sub.command_buffer \notin Destroyed(calls, "command_buffer")
       /\ sub.fence \notin Destroyed(calls, "fence")
       /\ {sub.wait, sub.signal} \cap Destroyed(calls, "semaphore") = {}

\* No present that the presentation engine has not consumed uses an object
\* the calls destroy.
NoPresentOnDestroyed(calls, queued) ==
    \A p \in queued :
       /\ p.wait \notin Destroyed(calls, "semaphore")
       /\ p.swapchain \notin Destroyed(calls, "swapchain")

\* The part of C22 that the code keeps: the order of the rebuild, and no
\* destruction under pending GPU work.
C22_OrderAndGpuIdle ==
    [][RebuildStep
          => /\ RebuildInOrder(rz'.calls, swapchain_data, per_frame_data, live)
             /\ NoGpuWorkOnDestroyed(rz'.calls, gpu_queue)
             /\ gpu_queue = {}]_vars

\* C22: during every rebuild the new swapchain is created with the old one
\* chained, then the old image views are destroyed, then every old FrameSlot
\* is torn down, then the old swapchain is destroyed; and none of these
\* objects, nor any framebuffer, is destroyed while GPU work or a present of
\* an earlier frame that references it is still pending.
C22_RebuildOrderNothingPending ==
    [][RebuildStep
          => /\ RebuildInOrder(rz'.calls, swapchain_data, per_frame_data, live)
             /\ NoGpuWorkOnDestroyed(rz'.calls, gpu_queue)
             /\ NoPresentOnDestroyed(rz'.calls, presenting)]_vars

\* A step in which prepare() or resize() built the Surface Set.
BuildStep == (pc = "constructed" /\ pc' = "idle") \/ RebuildStep

\* Slot pfd is Armed: its fence is live and signaled, its command pool and
\* command buffer are live, no submission uses its fence or command buffer,
\* and it holds no semaphore.
Armed(pfd, lv, signaled, queue) ==
    /\ FreshSlot(pfd, lv)
    /\ pfd.queue_submit_fence \in signaled
    /\ \A sub \in queue : /\ sub.fence # pfd.queue_submit_fence
                          /\ sub.command_buffer # pfd.primary_command_buffer

\* C23: right after every build or rebuild every FrameSlot is Armed, the
\* slots share no object, and every object of the slots of the previous
\* Surface Set was destroyed by the rebuild.
C23_SlotsArmedAfterBuild ==
    [][BuildStep
          => /\ per_frame_data' # <<>>
             /\ \A i \in 1..Len(per_frame_data') :
                   Armed(per_frame_data'[i], live', fence_signaled', gpu_queue')
             /\ \A i, j \in 1..Len(per_frame_data') :
                   i # j => /\ per_frame_data'[i].queue_submit_fence
                                  # per_frame_data'[j].queue_submit_fence
                            /\ per_frame_data'[i].primary_command_pool
                                  # per_frame_data'[j].primary_command_pool
                            /\ per_frame_data'[i].primary_command_buffer
                                  # per_frame_data'[j].primary_command_buffer
             /\ RebuildStep
                   => \A i \in 1..Len(per_frame_data) :
                         /\ per_frame_data[i].queue_submit_fence
                               \in Destroyed(rz'.calls, "fence")
                         /\ per_frame_data[i].primary_command_pool
                               \in Destroyed(rz'.calls, "command_pool")
                         /\ per_frame_data[i].primary_command_buffer
                               \in Destroyed(rz'.calls, "command_buffer")
                         /\ {per_frame_data[i].swapchain_acquire_semaphore,
                             per_frame_data[i].swapchain_release_semaphore} \ {NULL}
                               \subseteq Destroyed(rz'.calls, "semaphore") \ live'.semaphore]_vars

\* C23 witness: a rebuild replaced a slot that held both semaphores, by new
\* slots that are Armed.
C23_Witness ==
    /\ pc = "resize_done"
    /\ rz.rebuilt
    /\ \E i \in 1..Len(rz.before.per_frame_data) :
          /\ rz.before.per_frame_data[i].swapchain_acquire_semaphore # NULL
          /\ rz.before.per_frame_data[i].swapchain_release_semaphore # NULL
    /\ \A i \in 1..Len(per_frame_data) :
          Armed(per_frame_data[i], live, fence_signaled, gpu_queue)

\* C24: within update() a submit happens only in render_triangle(), after a
\* successful acquire of the same index in the same update(), and waits on
\* the semaphore that acquire was given; a present happens only after that
\* submit, for the same index, and waits on the release semaphore the submit
\* signals; nothing is submitted or presented anywhere else.
C24_AcquireSubmitPresent ==
    [][/\ (pc # "wait_fence" /\ pc' = "wait_fence")
             => /\ pc \in {"idle", "retry"}
                /\ res' = "eSuccess"
                /\ index' \in held' \ held
                /\ acquire_semaphore' # NULL
                /\ sem_state'[acquire_semaphore'] = "signal_pending"
       /\ pc = "wait_fence"
             => /\ index' = index
                /\ pc' \in {"wait_fence", "render"}
                /\ pc' = "wait_fence"
                      => UNCHANGED <<acquire_semaphore, per_frame_data>>
                /\ pc' = "render"
                      => per_frame_data'[index].swapchain_acquire_semaphore = acquire_semaphore
       /\ pc = "render"
             => /\ index' = index
                /\ pc' \in {"render", "present"}
                /\ pc' = "render" => UNCHANGED per_frame_data /\ gpu_queue' \subseteq gpu_queue
                /\ pc' = "present"
                      => \E sub \in gpu_queue' \ gpu_queue :
                            /\ gpu_queue' = gpu_queue \cup {sub}
                            /\ sub.wait = per_frame_data[index].swapchain_acquire_semaphore
                            /\ sub.signal = per_frame_data'[index].swapchain_release_semaphore
                            /\ sub.fence = per_frame_data[index].queue_submit_fence
                            /\ sub.command_buffer = per_frame_data[index].primary_command_buffer
       /\ pc = "present"
             => /\ index' = index
                /\ UNCHANGED per_frame_data
                /\ pc' = "present" => presenting' \subseteq presenting
                /\ pc' # "present"
                      => presenting' = presenting \cup
                            {[image |-> index,
                              wait |-> per_frame_data[index].swapchain_release_semaphore,
                              swapchain |-> swapchain_data.swapchain]}
       /\ pc # "render" => gpu_queue' \subseteq gpu_queue
       /\ pc # "present" => presenting' \subseteq presenting]_vars

\* C24 witness: an update() whose first acquire was stale acquired on the
\* retry, submitted and presented.
C24_Witness ==
    /\ pc = "return"
    /\ frame.first = "eErrorOutOfDateKHR"
    /\ frame.second = "eSuccess"
    /\ frame.submits = 1
    /\ frame.presents = 1
    /\ \E p \in presenting : p.image = index

\* C25: in every state recycled_semaphores holds at most one semaphore, and
\* the acquire semaphores that are pooled or held by slots are at most
\* image_count + 1.
C25_PoolAtMostOneEver ==
    /\ Len(recycled_semaphores) <= 1
    /\ device => Cardinality(Pooled \cup SlotAcquireSemaphores) <= ImageCount + 1

\* C25 witness: between frames the pool holds a semaphore while every slot
\* holds one too, after a rebuild and a failed acquire earlier on.
C25_Witness ==
    /\ pc = "idle"
    /\ Len(recycled_semaphores) = 1
    /\ Cardinality(SlotAcquireSemaphores) = ImageCount
    /\ Cardinality(Pooled \cup SlotAcquireSemaphores) = ImageCount + 1

\* The fence of the slot that update() is working on.
SlotFence == per_frame_data[index].queue_submit_fence

\* C26: when render_triangle() submits, the slot's fence is unsignaled and no
\* pending submission carries it; a fence is reset only by the fence wait of
\* acquire_next_image(), which found it signaled, once before each submit.
C26_FenceUnsignaledAtSubmit ==
    [][/\ pc = "render"
             => /\ SlotFence \in live.fence
                /\ SlotFence \notin fence_signaled
                /\ \A sub \in gpu_queue : sub.fence # SlotFence
       /\ (pc = "wait_fence" /\ pc' = "render")
             => /\ SlotFence \in fence_signaled
                /\ fence_signaled' = fence_signaled \ {SlotFence}
       /\ (pc = "render" /\ pc' = "present")
             => /\ fence_signaled' = fence_signaled
                /\ \E sub \in gpu_queue' \ gpu_queue : sub.fence = SlotFence
       /\ \A f \in (fence_signaled \ fence_signaled') \cap live'.fence :
             \/ pc = "wait_fence" /\ pc' = "render" /\ f = SlotFence
             \/ f \notin live.fence]_vars

\* C26 witness: a slot that was submitted in an earlier frame is about to be
\* submitted again, its fence reset, while another submission is pending.
C26_Witness ==
    /\ pc = "render"
    /\ per_frame_data[index].swapchain_release_semaphore # NULL
    /\ SlotFence \notin fence_signaled
    /\ \E sub \in gpu_queue : sub.fence # SlotFence

\* C28: the application holds at most one image that it acquired and has
\* not presented, and when it asks for the next image every image delivered
\* before was presented or its swapchain was destroyed.
C28_OneImageHeld ==
    [][/\ Cardinality(unpresented) <= 1
       /\ AcquireStep => unpresented = {}]_vars

\* update() is running: it was called and has not reached its return.
InUpdate == pc \in {"retry", "wait_fence", "render", "present", "wait_idle",
                    "resize", "resize_wait", "resize_done"}

\* The fence wait of acquire_next_image() waits on a fence that is signaled
\* or that a pending submission with a signaled wait semaphore will signal.
FenceWaitWillReturn ==
    pc = "wait_fence"
       => \/ SlotFence \in fence_signaled
          \/ \E sub \in gpu_queue : /\ sub.fence = SlotFence
                                    /\ sem_state[sub.wait] = "signal_pending"

\* No image is asked for while the application holds every image of the
\* swapchain unpresented.
AcquireNotWhenAllHeld ==
    (device /\ pc \in {"idle", "retry"})
       => unpresented # 1..sc_count[swapchain_data.swapchain]

\* The part of C27 that the code keeps: the fence wait always returns.
C27_FenceWaitReturns == []FenceWaitWillReturn

\* C27: every update() eventually returns; the fence wait of acquire waits
\* on a fence that is or will be signaled, and no image is asked for while
\* the application holds every image unpresented.
C27_UpdateReturns ==
    /\ InUpdate ~> (pc = "return")
    /\ []FenceWaitWillReturn
    /\ []AcquireNotWhenAllHeld

====
